---------------------------- MODULE Spec2Model ----------------------------
(***************************************************************************)
(* DS18B20 driver (ds18b20.c) over a one-wire bus.                         *)
(*                                                                         *)
(* The driver's functions are operators over a "world" record w that       *)
(* carries the devices on the bus and the trace of bus calls made so far;  *)
(* each public operation is one action.  What the bus and the devices do   *)
(* during one operation is an input e of the action (a disturbance: an     *)
(* unanswered reset, a silent device, a transport fault, a corrupted       *)
(* read).  Temperatures are in sixteenths of a degree (the float result    *)
(* is raw / 16.0f), times in microseconds.                                 *)
(***************************************************************************)
EXTENDS Integers, Sequences, FiniteSets, TLC

VARIABLES
    info,       \* the DS18B20_Info object of the session
    dev,        \* scratchpad registers of each device
    mode,       \* protocol position of each device
    attached,   \* the devices wired to the bus
    pc,         \* "idle": the caller may call; "returned": a call has returned
    last,       \* the call that has returned: arguments, result, bus trace
    prev,       \* "timed_out" when the call before was a wait that timed out
    glitched,   \* the bus has been disturbed during a call of this run
    other,      \* the DS18B20_Info object of a second session on the same bus
    cur,        \* the device whose session info is: other is the other one's
    dec         \* an application of _decode_temp: its arguments and its result

vars == <<info, dev, mode, attached, pc, last, prev, glitched, other, cur, dec>>

---------------------------------------------------------------------------
\* Bounds of the model.

\* the bus may signal the end of a conversion at poll 1..MaxDoneAt, or never (0)
MaxDoneAt == 3
\* ticks the tick counter advances during one pass of the polling loop
MaxTickStep == 2

---------------------------------------------------------------------------
\* Constants of the program.

T_CONV == 750
DS18B20_FUNCTION_TEMP_CONVERT == 68
DS18B20_FUNCTION_SCRATCHPAD_WRITE == 78
DS18B20_FUNCTION_SCRATCHPAD_READ == 190
\* sizeof(Scratchpad): the packed struct of lines 62-70
SizeofScratchpad == 9
\* offsetof(Scratchpad, configuration)
OffsetofConfiguration == 4

\* ds18b20.h and owb.h, FreeRTOSConfig.h
DS18B20_RESOLUTION_INVALID == -1
DS18B20_RESOLUTION_9_BIT == 9
DS18B20_RESOLUTION_12_BIT == 12
OWB_ROM_SKIP == 204
OWB_ROM_MATCH == 85
portTICK_PERIOD_MS == 10

\* DS18B20_ERROR
DS18B20_ERROR == {"UNKNOWN", "OK", "DEVICE", "CRC", "OWB", "NULL"}

---------------------------------------------------------------------------
\* Bytes.

RECURSIVE Xor(_, _)
\* a ^ b on non-negative integers
Xor(a, b) ==
    IF a = 0 THEN b
    ELSE IF b = 0 THEN a
    ELSE ((a + b) % 2) + 2 * Xor(a \div 2, b \div 2)

RECURSIVE And(_, _)
\* a & b on non-negative integers
And(a, b) ==
    IF a = 0 \/ b = 0 THEN 0
    ELSE ((a % 2) * (b % 2)) + 2 * And(a \div 2, b \div 2)

RECURSIVE Crc8Bits(_, _, _)
\* CRC-8/MAXIM of one byte, bit by bit: polynomial 0x8C (0x31 reflected)
Crc8Bits(crc, data, n) ==
    IF n = 0 THEN crc
    ELSE LET mix == (crc + data) % 2
             sh  == crc \div 2
         IN Crc8Bits(IF mix = 1 THEN Xor(sh, 140) ELSE sh, data \div 2, n - 1)

\* the 256-entry table of the bus library
CrcTable == [x \in 0..255 |-> Crc8Bits(x, 0, 8)]

RECURSIVE owb_crc8_bytes(_, _)
\* owb_crc8_bytes(crc, data, len) over the bytes of the sequence
owb_crc8_bytes(crc, data) ==
    IF data = <<>> THEN crc
    ELSE owb_crc8_bytes(CrcTable[Xor(crc, Head(data))], Tail(data))

---------------------------------------------------------------------------
\* The devices.

Devs == {1, 2}

\* 64-bit ROM codes as their 8 bytes, family code first
RomOf == [d \in Devs |-> IF d = 1 THEN <<40, 170, 187, 204, 221, 238, 255, 16>>
                                  ELSE <<40, 1, 2, 3, 4, 5, 6, 7>>]

ZeroRom == <<0, 0, 0, 0, 0, 0, 0, 0>>

\* the eight registers the device shifts out, before its CRC
DevBytes8(r) == <<r.lsb, r.msb, r.th, r.tl, r.cfg, 255, 12, 16>>

\* the nine bytes of the device's scratchpad
DevBytes(r) == LET b == DevBytes8(r) IN Append(b, owb_crc8_bytes(0, b))

\* the configuration register keeps bits 5-6; bit 7 reads 0, bits 0-4 read 1
CfgStore(b) == ((b \div 32) % 4) * 32 + 31

\* resolution the device is configured for
DevResolution(r) == ((r.cfg \div 32) % 4) + 9

Modes == {"idle", "rom", "match", "func", "read", "w0", "w1", "w2", "conv"}

\* a device's step on receiving byte b
DevOnByte(m, r, b) ==
    CASE m = "rom"  -> [m |-> IF b = OWB_ROM_SKIP THEN "func"
                              ELSE IF b = OWB_ROM_MATCH THEN "match" ELSE "idle",
                        r |-> r]
      [] m = "func" -> [m |-> IF b = DS18B20_FUNCTION_SCRATCHPAD_READ THEN "read"
                              ELSE IF b = DS18B20_FUNCTION_SCRATCHPAD_WRITE THEN "w0"
                              ELSE IF b = DS18B20_FUNCTION_TEMP_CONVERT THEN "conv"
                              ELSE "idle",
                        r |-> r]
      [] m = "w0"   -> [m |-> "w1", r |-> [r EXCEPT !.th = b]]
      [] m = "w1"   -> [m |-> "w2", r |-> [r EXCEPT !.tl = b]]
      [] m = "w2"   -> [m |-> "idle", r |-> [r EXCEPT !.cfg = CfgStore(b)]]
      [] OTHER      -> [m |-> IF m = "conv" THEN "conv" ELSE "idle", r |-> r]

RECURSIVE DevOnBytes(_, _, _)
DevOnBytes(m, r, bs) ==
    IF bs = <<>> THEN [m |-> m, r |-> r]
    ELSE LET s == DevOnByte(m, r, Head(bs)) IN DevOnBytes(s.m, s.r, Tail(bs))

---------------------------------------------------------------------------
\* What happens on the bus during one operation.

NoEnv == [kind |-> "none", at |-> 0, pos |-> 0]

\* positions (1..9) of the byte a corrupted read flips bit 5 of
NoisePos == {1, 3, 5, 9}

\* disturbances of an operation that makes at most k resets, n bus calls, j reads:
\*   absent: reset number `at` goes unanswered;  silent: so does every later one;
\*   fault:  bus call number `at` reports a transport fault and does nothing;
\*   noise:  read number `at` delivers byte `pos` with bit 5 flipped.
Disturbances(k, n, j) ==
    {[kind |-> "absent", at |-> i, pos |-> 0] : i \in 1..k}
    \cup {[kind |-> "silent", at |-> i, pos |-> 0] : i \in 1..k}
    \cup {[kind |-> "fault", at |-> i, pos |-> 0] : i \in 1..n}
    \cup {[kind |-> "noise", at |-> i, pos |-> p] : i \in 1..j, p \in NoisePos}

\* one entry of the bus trace
Call(op, data, status, val) == [op |-> op, data |-> data, status |-> status, val |-> val]

\* the world at the start of an operation
World(d, m, a) == [dev |-> d, mode |-> m, att |-> a, trace |-> <<>>, k |-> 0, j |-> 0]

Faulted(w, e) == e.kind = "fault" /\ e.at = Len(w.trace) + 1

Unanswered(w, e) ==
    \/ e.kind = "absent" /\ e.at = w.k + 1
    \/ e.kind = "silent" /\ e.at <= w.k + 1


---------------------------------------------------------------------------
\* The one-wire bus library, as the driver uses it.  status is TRUE for
\* OWB_STATUS_OK.

Log(w, c) == [w EXCEPT !.trace = Append(@, c)]

\* owb_reset(bus, &present): every attached device restarts at the ROM command
owb_reset(w, e) ==
    IF Faulted(w, e)
    THEN [w |-> Log(w, Call("reset", <<>>, FALSE, 0)), status |-> FALSE, present |-> FALSE]
    ELSE LET heard == ~Unanswered(w, e)
             present == heard /\ w.att # {}
             m2 == [d \in Devs |-> IF d \in w.att
                                   THEN (IF heard THEN "rom" ELSE "idle")
                                   ELSE w.mode[d]]
             w2 == [w EXCEPT !.mode = m2, !.k = @ + 1]
         IN [w |-> Log(w2, Call("reset", <<>>, TRUE, IF present THEN 1 ELSE 0)),
             status |-> TRUE, present |-> present]

\* what the attached devices make of the bytes bs
Deliver(w, bs) ==
    LET s == [d \in Devs |-> DevOnBytes(w.mode[d], w.dev[d], bs)]
    IN [w EXCEPT !.mode = [d \in Devs |-> IF d \in w.att THEN s[d].m ELSE w.mode[d]],
                 !.dev  = [d \in Devs |-> IF d \in w.att THEN s[d].r ELSE w.dev[d]]]

\* owb_write_byte(bus, b)
owb_write_byte(w, e, b) ==
    IF Faulted(w, e)
    THEN [w |-> Log(w, Call("write_byte", <<b>>, FALSE, 0)), status |-> FALSE]
    ELSE [w |-> Log(Deliver(w, <<b>>), Call("write_byte", <<b>>, TRUE, 0)), status |-> TRUE]

\* owb_write_bytes(bus, buffer, len)
owb_write_bytes(w, e, bs) ==
    IF Faulted(w, e)
    THEN [w |-> Log(w, Call("write_bytes", bs, FALSE, 0)), status |-> FALSE]
    ELSE [w |-> Log(Deliver(w, bs), Call("write_bytes", bs, TRUE, 0)), status |-> TRUE]

\* owb_write_rom_code(bus, rom_code): a device waiting for a ROM code stays
\* selected when the code is its own
owb_write_rom_code(w, e, rom) ==
    IF Faulted(w, e)
    THEN [w |-> Log(w, Call("write_rom_code", rom, FALSE, 0)), status |-> FALSE]
    ELSE LET m2 == [d \in Devs |->
                     IF d \notin w.att THEN w.mode[d]
                     ELSE IF w.mode[d] = "match"
                          THEN (IF rom = RomOf[d] THEN "func" ELSE "idle")
                          ELSE IF w.mode[d] = "conv" THEN "conv" ELSE "idle"]
         IN [w |-> Log([w EXCEPT !.mode = m2], Call("write_rom_code", rom, TRUE, 0)),
             status |-> TRUE]

\* the devices shifting their scratchpad out
Talkers(w) == {d \in w.att : w.mode[d] = "read"}

RECURSIVE WiredAnd(_, _, _)
\* byte i on the wire: the AND of what the talkers send, all ones when none does
WiredAnd(w, ds, i) ==
    IF ds = {} THEN 255
    ELSE LET d == CHOOSE x \in ds : TRUE
         IN IF ds = {d} THEN DevBytes(w.dev[d])[i]
            ELSE And(DevBytes(w.dev[d])[i], WiredAnd(w, ds \ {d}, i))

\* the nine bytes that read number j of the operation would receive
Wire(w, e, j) ==
    LET ds == Talkers(w)
        clean == IF Cardinality(ds) = 1
                 THEN DevBytes(w.dev[CHOOSE d \in ds : TRUE])
                 ELSE [i \in 1..SizeofScratchpad |-> WiredAnd(w, ds, i)]
    IN IF e.kind = "noise" /\ e.at = j
       THEN [clean EXCEPT ![e.pos] = Xor(@, 32)]
       ELSE clean

\* owb_read_bytes(bus, buffer, len): fills the first len bytes of buf
owb_read_bytes(w, e, buf, len) ==
    IF Faulted(w, e)
    THEN [w |-> Log(w, Call("read_bytes", <<>>, FALSE, len)), status |-> FALSE, buf |-> buf]
    ELSE LET j == w.j + 1
             wire == Wire(w, e, j)
             got == [i \in 1..SizeofScratchpad |-> IF i <= len THEN wire[i] ELSE buf[i]]
             m2 == [d \in Devs |-> IF d \in Talkers(w) THEN "idle" ELSE w.mode[d]]
             w2 == [w EXCEPT !.mode = m2, !.j = j]
         IN [w |-> Log(w2, Call("read_bytes", SubSeq(got, 1, len), TRUE, len)),
             status |-> TRUE, buf |-> got]

\* owb_read_bit(bus, &status): bit is the level the bus shows
owb_read_bit(w, e, bit) ==
    IF Faulted(w, e)
    THEN [w |-> Log(w, Call("read_bit", <<>>, FALSE, 0)), status |-> FALSE, bit |-> 0]
    ELSE [w |-> Log(w, Call("read_bit", <<>>, TRUE, bit)), status |-> TRUE, bit |-> bit]

---------------------------------------------------------------------------
\* The driver's static functions.  A function that goes on with the result
\* of a call is split at that call: the operator after the call takes the
\* result as its first parameter.

\* Scratchpad scratchpad = {0}
ZeroScratchpad == [x \in 1..SizeofScratchpad |-> 0]

\* the session after ds18b20_malloc: memset to zero
MallocInfo ==
    [bus |-> "NULL", rom_code |-> ZeroRom, use_crc |-> FALSE, resolution |-> 0,
     solo |-> FALSE, init |-> FALSE]

_init(i, bus) ==
    [i EXCEPT !.bus = bus, !.rom_code = ZeroRom, !.use_crc = FALSE,
              !.resolution = DS18B20_RESOLUTION_INVALID, !.solo = FALSE, !.init = TRUE]

\* a guard that lets every session through
_is_init_always(i) == TRUE

_is_init(i) == i.init

\* a ROM selection that ignores solo and always matches the ROM code
select_device_always_match(w, e, i) ==
    owb_write_rom_code(owb_write_byte(w, e, OWB_ROM_MATCH).w, e, i.rom_code).w

\* the ROM selection of _address_device after a reset that reported presence
select_device(w, e, i) ==
    IF i.solo
    THEN owb_write_byte(w, e, OWB_ROM_SKIP).w
    ELSE owb_write_rom_code(owb_write_byte(w, e, OWB_ROM_MATCH).w, e, i.rom_code).w

\* an addressing that selects every device on the bus, whatever the session
address_reset_skip_rom(r, e, i) ==
    IF r.present
    THEN [w |-> owb_write_byte(r.w, e, OWB_ROM_SKIP).w, present |-> TRUE]
    ELSE [w |-> r.w, present |-> FALSE]

\* _address_device after owb_reset
address_reset(r, e, i) ==
    IF r.present
    THEN [w |-> select_device(r.w, e, i), present |-> TRUE]
    ELSE [w |-> r.w, present |-> FALSE]

_address_device(w, e, i) ==
    IF _is_init(i)
    THEN address_reset(owb_reset(w, e), e, i)
    ELSE [w |-> w, present |-> FALSE]

_check_resolution(resolution) ==
    (resolution >= DS18B20_RESOLUTION_9_BIT) /\ (resolution <= DS18B20_RESOLUTION_12_BIT)

_min(x, y) == IF x > y THEN y ELSE x

\* a byte count that does not force the whole scratchpad under CRC
read_count_as_requested(i, count) ==
    _min(SizeofScratchpad, count)

\* the number of bytes _read_scratchpad transfers
read_count(i, count) ==
    _min(SizeofScratchpad, IF i.use_crc THEN SizeofScratchpad ELSE count)

\* the verdict of _read_scratchpad once the bytes have arrived
read_verdict(i, buf) ==
    IF ~i.use_crc THEN "OK"
    ELSE IF owb_crc8_bytes(0, buf) # 0 THEN "CRC" ELSE "OK"

\* _read_scratchpad after owb_read_bytes
read_transferred(r, e, i) ==
    IF r.status
    THEN [w   |-> IF ~i.use_crc THEN owb_reset(r.w, e).w ELSE r.w,
          err |-> read_verdict(i, r.buf),
          buf |-> r.buf]
    ELSE [w |-> r.w, err |-> "OWB", buf |-> r.buf]

\* _read_scratchpad after owb_write_byte(DS18B20_FUNCTION_SCRATCHPAD_READ)
read_commanded(c, e, i, buf, n) ==
    IF c.status
    THEN read_transferred(owb_read_bytes(c.w, e, buf, n), e, i)
    ELSE [w |-> c.w, err |-> "OWB", buf |-> buf]

\* _read_scratchpad after _address_device
read_addressed(a, e, i, buf, n) ==
    IF a.present
    THEN read_commanded(owb_write_byte(a.w, e, DS18B20_FUNCTION_SCRATCHPAD_READ),
                        e, i, buf, n)
    ELSE [w |-> a.w, err |-> "UNKNOWN", buf |-> buf]

_read_scratchpad(w, e, i, buf, count) ==
    read_addressed(_address_device(w, e, i), e, i, buf, read_count(i, count))

\* a write that leaves the configuration byte out
Written3_without_configuration(buf) == SubSeq(buf, 3, 4)

\* bytes 2, 3 and 4 of the scratchpad: trigger_high, trigger_low, configuration
Written3(buf) == SubSeq(buf, 3, 5)

\* _write_scratchpad after the verifying _read_scratchpad
write_verified(r, buf) ==
    [w |-> r.w, result |-> r.err = "OK" /\ Written3(buf) = Written3(r.buf)]

\* _write_scratchpad after owb_write_bytes
write_sent(w, e, i, buf, verify) ==
    IF verify
    THEN write_verified(_read_scratchpad(w, e, i, ZeroScratchpad,
                                         OffsetofConfiguration + 1), buf)
    ELSE [w |-> w, result |-> TRUE]

\* _write_scratchpad after _address_device
write_addressed(a, e, i, buf, verify) ==
    IF a.present
    THEN write_sent(owb_write_bytes(
                        owb_write_byte(a.w, e, DS18B20_FUNCTION_SCRATCHPAD_WRITE).w,
                        e, Written3(buf)).w,
                    e, i, buf, verify)
    ELSE [w |-> a.w, result |-> FALSE]

_write_scratchpad(w, e, i, buf, verify) ==
    IF _is_init(i)
    THEN write_addressed(_address_device(w, e, i), e, i, buf, verify)
    ELSE [w |-> w, result |-> FALSE]

\* a decoding that leaves the undefined bits of the LSB in the result
_decode_temp_unmasked(lsb, msb, resolution) ==
    IF _check_resolution(resolution)
    THEN IF msb * 256 + lsb >= 32768 THEN msb * 256 + lsb - 65536 ELSE msb * 256 + lsb
    ELSE 0

\* _decode_temp, in sixteenths of a degree
_decode_temp(lsb, msb, resolution) ==
    IF _check_resolution(resolution)
    THEN LET lsb_mask == <<248, 252, 254, 255>>
             lsb_masked == And(lsb_mask[resolution - DS18B20_RESOLUTION_9_BIT + 1], lsb)
             u == msb * 256 + lsb_masked
         IN IF u >= 32768 THEN u - 65536 ELSE u
    ELSE 0

\* max_conversion_time of _wait_for_conversion, in microseconds:
\* (float)T_CONV / (float)divisor * 1.1
max_conversion_time(resolution) ==
    (T_CONV * 1100) \div (2 ^ (DS18B20_RESOLUTION_12_BIT - resolution))

\* a tick count rounded down instead of up
max_conversion_ticks_floor(resolution) ==
    max_conversion_time(resolution) \div (portTICK_PERIOD_MS * 1000)

\* max_conversion_ticks: ceil(max_conversion_time / portTICK_PERIOD_MS)
max_conversion_ticks(resolution) ==
    (max_conversion_time(resolution) + portTICK_PERIOD_MS * 1000 - 1)
        \div (portTICK_PERIOD_MS * 1000)

RECURSIVE poll_loop(_, _, _, _, _, _)
RECURSIVE poll_read(_, _, _, _, _, _)

\* the loop condition, after owb_read_bit and xTaskGetTickCount: the tick
\* counter has advanced by step in each pass
poll_read(b, e, max, doneAt, step, p) ==
    IF b.bit = 0 /\ p * step < max
    THEN poll_loop(b.w, e, max, doneAt, step, p + 1)
    ELSE [w |-> b.w, polls |-> p, ticks |-> p * step, status |-> b.bit]

\* pass number p of the do-while loop: vTaskDelay(1), owb_read_bit
poll_loop(w, e, max, doneAt, step, p) ==
    poll_read(owb_read_bit(w, e, IF doneAt # 0 /\ p >= doneAt THEN 1 ELSE 0),
              e, max, doneAt, step, p)

NoWait == [polls |-> 0, ticks |-> 0, status |-> 0, max |-> 0, bound |-> 0,
           elapsed_time |-> 0, timed_out |-> FALSE]

\* _wait_for_conversion after the loop; elapsed_time in microseconds
wait_polled(l, resolution) ==
    [w |-> l.w,
     wait |-> [polls |-> l.polls, ticks |-> l.ticks, status |-> l.status,
               max |-> max_conversion_ticks(resolution),
               bound |-> max_conversion_time(resolution),
               elapsed_time |-> l.ticks * portTICK_PERIOD_MS * 1000,
               timed_out |-> l.ticks >= max_conversion_ticks(resolution)]]

_wait_for_conversion(w, e, i, doneAt, step) ==
    IF _check_resolution(i.resolution)
    THEN wait_polled(poll_loop(w, e, max_conversion_ticks(i.resolution), doneAt, step, 1),
                     i.resolution)
    ELSE [w |-> w, wait |-> NoWait]

---------------------------------------------------------------------------
\* The public API.  Every operator yields the world and the session after
\* the call, and what the call returns.

\* the float slot a caller passes: has is FALSE for a NULL pointer
Slot(has) == [has |-> has, written |-> FALSE, val |-> 0]

\* a store that leaves the slot as it was
Store_nothing(slot, v) == slot

Store(slot, v) == IF slot.has THEN [slot EXCEPT !.written = TRUE, !.val = v] ELSE slot

\* a return that leaves the session as it is and yields nothing yet
Ret(w, i) ==
    [w |-> w, info |-> i, result |-> FALSE, resolution |-> 0, err |-> "none",
     slot |-> Slot(FALSE), wait |-> NoWait]

\* a configuration byte computed from the resolution itself, not one less
configuration_value_off_by_one(resolution) == (resolution % 4) * 32 + 31

\* the configuration byte ds18b20_set_resolution computes
configuration_value(resolution) == ((resolution - 1) % 4) * 32 + 31

\* the resolution ds18b20_read_resolution makes of a configuration byte
resolution_of(configuration) ==
    LET resolution == ((configuration \div 32) % 4) + DS18B20_RESOLUTION_9_BIT
    IN IF ~_check_resolution(resolution) THEN DS18B20_RESOLUTION_INVALID ELSE resolution

\* a read of the resolution that also stores it in the session
resolution_read_cached(r, i) ==
    [Ret(r.w, [i EXCEPT !.resolution = resolution_of(r.buf[OffsetofConfiguration + 1])])
       EXCEPT !.resolution = resolution_of(r.buf[OffsetofConfiguration + 1])]

\* ds18b20_read_resolution after _read_scratchpad
resolution_read(r, i) ==
    [Ret(r.w, i) EXCEPT !.resolution = resolution_of(r.buf[OffsetofConfiguration + 1])]

ds18b20_read_resolution(w, e, i) ==
    IF _is_init(i)
    THEN resolution_read(_read_scratchpad(w, e, i, ZeroScratchpad,
                                          OffsetofConfiguration + 1), i)
    ELSE [Ret(w, i) EXCEPT !.resolution = DS18B20_RESOLUTION_INVALID]

\* ds18b20_info->resolution = ds18b20_read_resolution(ds18b20_info)
cache_resolution(r) == [r EXCEPT !.info.resolution = r.resolution]

ds18b20_init(w, e, i, bus, rom_code) ==
    cache_resolution(
        ds18b20_read_resolution(w, e, [_init(i, bus) EXCEPT !.rom_code = rom_code]))

ds18b20_init_solo(w, e, i, bus) ==
    cache_resolution(
        ds18b20_read_resolution(w, e, [_init(i, bus) EXCEPT !.solo = TRUE]))

ds18b20_use_crc(w, i, use_crc) ==
    IF _is_init(i) THEN Ret(w, [i EXCEPT !.use_crc = use_crc]) ELSE Ret(w, i)

\* ds18b20_set_resolution after _write_scratchpad
set_written(wr, e, i, resolution) ==
    IF wr.result
    THEN [Ret(wr.w, [i EXCEPT !.resolution = resolution]) EXCEPT !.result = TRUE]
    ELSE [cache_resolution(ds18b20_read_resolution(wr.w, e, i)) EXCEPT !.resolution = 0]

\* ds18b20_set_resolution after its _read_scratchpad
set_read(r, e, i, resolution) ==
    set_written(_write_scratchpad(r.w, e, i,
                                  [r.buf EXCEPT ![OffsetofConfiguration + 1] =
                                                    configuration_value(resolution)],
                                  TRUE),
                e, i, resolution)

ds18b20_set_resolution(w, e, i, resolution) ==
    IF _is_init(i) /\ _check_resolution(i.resolution)
    THEN set_read(_read_scratchpad(w, e, i, ZeroScratchpad, OffsetofConfiguration + 1),
                  e, i, resolution)
    ELSE Ret(w, i)

\* a trigger that sends the convert command whatever the reset reported
convert_addressed_unconditionally(a, e, i) ==
    [Ret(owb_write_byte(a.w, e, DS18B20_FUNCTION_TEMP_CONVERT).w, i)
       EXCEPT !.result = a.present]

\* ds18b20_convert after _address_device
convert_addressed(a, e, i) ==
    IF a.present
    THEN [Ret(owb_write_byte(a.w, e, DS18B20_FUNCTION_TEMP_CONVERT).w, i)
            EXCEPT !.result = TRUE]
    ELSE Ret(a.w, i)

ds18b20_convert(w, e, i) ==
    IF _is_init(i) THEN convert_addressed(_address_device(w, e, i), e, i) ELSE Ret(w, i)

ds18b20_convert_all(w, e, i) ==
    Ret(owb_write_byte(owb_write_byte(owb_reset(w, e).w, e, OWB_ROM_SKIP).w,
                       e, DS18B20_FUNCTION_TEMP_CONVERT).w, i)

\* the elapsed time returned
waited(r, i) == [Ret(r.w, i) EXCEPT !.wait = r.wait]

ds18b20_wait_for_conversion(w, e, i, doneAt, step) ==
    IF _is_init(i) THEN waited(_wait_for_conversion(w, e, i, doneAt, step), i) ELSE Ret(w, i)

\* a read that decodes the buffer whether or not the transfer succeeded
temp_read_received(r, i, slot) ==
    [Ret(r.w, i) EXCEPT
       !.err = r.err,
       !.slot = Store(slot, _decode_temp(r.buf[1], r.buf[2], i.resolution))]

\* ds18b20_read_temp after _read_scratchpad
temp_read(r, i, slot) ==
    [Ret(r.w, i) EXCEPT
       !.err = r.err,
       !.slot = Store(slot, _decode_temp(IF r.err = "OK" THEN r.buf[1] ELSE 0,
                                         IF r.err = "OK" THEN r.buf[2] ELSE 128,
                                         i.resolution))]

ds18b20_read_temp(w, e, i, slot) ==
    IF _is_init(i)
    THEN temp_read(_read_scratchpad(w, e, i, ZeroScratchpad, 2), i, slot)
    ELSE [Ret(w, i) EXCEPT !.err = "UNKNOWN", !.slot = slot]

\* ds18b20_convert_and_read_temp after _wait_for_conversion
convert_waited(wt, e, i, slot) ==
    IF slot.has
    THEN [ds18b20_read_temp(wt.w, e, i, Store(slot, 0)) EXCEPT !.wait = wt.wait]
    ELSE [Ret(wt.w, i) EXCEPT !.err = "NULL", !.slot = slot, !.wait = wt.wait]

\* a composite that waits and reads whether or not the trigger succeeded
convert_triggered_regardless(c, e, i, slot, doneAt, step) ==
    convert_waited(_wait_for_conversion(c.w, e, i, doneAt, step), e, i, slot)

\* ds18b20_convert_and_read_temp after ds18b20_convert
convert_triggered(c, e, i, slot, doneAt, step) ==
    IF c.result
    THEN convert_waited(_wait_for_conversion(c.w, e, i, doneAt, step), e, i, slot)
    ELSE [Ret(c.w, i) EXCEPT !.err = "UNKNOWN", !.slot = slot]

ds18b20_convert_and_read_temp(w, e, i, slot, doneAt, step) ==
    IF _is_init(i)
    THEN convert_triggered(ds18b20_convert(w, e, i), e, i, slot, doneAt, step)
    ELSE [Ret(w, i) EXCEPT !.err = "UNKNOWN", !.slot = slot]

---------------------------------------------------------------------------
\* The state machine: a caller making one call after another.  The bus is
\* disturbed during at most one call of a run.

\* (LSB, MSB) of the temperatures a device may hold: 85.0, -10.125
Temps == {<<80, 5>>, <<94, 255>>}

\* the configuration registers a device may power up with: 9 to 12 bits
Configs == {31, 63, 95, 127}

\* resolutions a caller may pass: the four valid ones, the invalid one, another
ArgResolutions == {DS18B20_RESOLUTION_INVALID} \cup 9..13

\* ROM codes a caller may pass to ds18b20_init
ArgRoms == {RomOf[d] : d \in attached}

\* what the bus may do during the next call
Envs(k, n, j) == {NoEnv} \cup (IF glitched THEN {} ELSE Disturbances(k, n, j))

\* _decode_temp not applied
NoDecode == [lsb |-> 0, msb |-> 0, resolution |-> 0, result |-> 0, done |-> FALSE]

NoCall ==
    [op |-> "none", arg |-> 0, rom |-> ZeroRom, e |-> NoEnv, doneAt |-> 0, step |-> 0,
     result |-> FALSE, resolution |-> 0, err |-> "none", slot |-> Slot(FALSE),
     wait |-> NoWait, trace |-> <<>>, info0 |-> MallocInfo, dev0 |-> <<>>]

Init ==
    /\ info = MallocInfo
    /\ attached = {1}
    /\ \E t \in Temps, c \in Configs :
         dev = [d \in Devs |->
                  IF d = 1 THEN [lsb |-> t[1], msb |-> t[2], th |-> 75, tl |-> 70, cfg |-> c]
                  ELSE [lsb |-> 145, msb |-> 1, th |-> 100, tl |-> 10, cfg |-> 127]]
    /\ mode = [d \in Devs |-> "idle"]
    /\ pc = "idle"
    /\ last = NoCall
    /\ prev = "other"
    /\ glitched = FALSE
    /\ other = MallocInfo
    /\ cur = 1
    /\ dec = NoDecode

\* the call returns r: the session, the devices and the record of the call
Returns(r, call) ==
    /\ info' = r.info
    /\ dev' = r.w.dev
    /\ mode' = r.w.mode
    /\ pc' = "returned"
    /\ last' = [call EXCEPT !.result = r.result, !.resolution = r.resolution,
                            !.err = r.err, !.slot = r.slot, !.wait = r.wait,
                            !.trace = r.w.trace, !.info0 = info, !.dev0 = dev]
    /\ glitched' = (glitched \/ call.e # NoEnv)
    /\ UNCHANGED <<attached, prev, other, cur, dec>>

Start == World(dev, mode, attached)

Call_init ==
    /\ pc = "idle"
    /\ \E rom \in ArgRoms, e \in Envs(2, 6, 1) :
         Returns(ds18b20_init(Start, e, info, "owb", rom),
                 [NoCall EXCEPT !.op = "init", !.rom = rom, !.e = e])

Call_init_solo ==
    /\ pc = "idle"
    /\ \E e \in Envs(2, 5, 1) :
         Returns(ds18b20_init_solo(Start, e, info, "owb"),
                 [NoCall EXCEPT !.op = "init_solo", !.e = e])

Call_use_crc ==
    /\ pc = "idle"
    /\ \E b \in BOOLEAN :
         Returns(ds18b20_use_crc(Start, info, b),
                 [NoCall EXCEPT !.op = "use_crc", !.arg = IF b THEN 1 ELSE 0])

Call_set_resolution ==
    /\ pc = "idle"
    /\ \E resolution \in ArgResolutions, e \in Envs(7, 23, 3) :
         Returns(ds18b20_set_resolution(Start, e, info, resolution),
                 [NoCall EXCEPT !.op = "set_resolution", !.arg = resolution, !.e = e])

Call_read_resolution ==
    /\ pc = "idle"
    /\ \E e \in Envs(2, 6, 1) :
         Returns(ds18b20_read_resolution(Start, e, info),
                 [NoCall EXCEPT !.op = "read_resolution", !.e = e])

Call_convert ==
    /\ pc = "idle"
    /\ \E e \in Envs(1, 4, 0) :
         Returns(ds18b20_convert(Start, e, info),
                 [NoCall EXCEPT !.op = "convert", !.e = e])

Call_convert_all ==
    /\ pc = "idle"
    /\ \E e \in Envs(1, 3, 0) :
         Returns(ds18b20_convert_all(Start, e, info),
                 [NoCall EXCEPT !.op = "convert_all", !.e = e])

Call_wait_for_conversion ==
    /\ pc = "idle"
    /\ \E doneAt \in 0..MaxDoneAt, step \in 1..MaxTickStep, e \in Envs(0, MaxDoneAt, 0) :
         Returns(ds18b20_wait_for_conversion(Start, e, info, doneAt, step),
                 [NoCall EXCEPT !.op = "wait_for_conversion", !.e = e,
                                !.doneAt = doneAt, !.step = step])

Call_read_temp ==
    /\ pc = "idle"
    /\ \E has \in BOOLEAN, e \in Envs(2, 6, 1) :
         Returns(ds18b20_read_temp(Start, e, info, Slot(has)),
                 [NoCall EXCEPT !.op = "read_temp", !.e = e,
                                !.arg = IF has THEN 1 ELSE 0])

Call_convert_and_read_temp ==
    /\ pc = "idle"
    /\ \E has \in BOOLEAN, doneAt \in 0..MaxDoneAt, step \in 1..MaxTickStep,
          e \in Envs(3, 4, 1) :
         Returns(ds18b20_convert_and_read_temp(Start, e, info, Slot(has), doneAt, step),
                 [NoCall EXCEPT !.op = "convert_and_read_temp", !.e = e,
                                !.arg = IF has THEN 1 ELSE 0,
                                !.doneAt = doneAt, !.step = step])

\* the caller has looked at the result and goes on
Continue ==
    /\ pc = "returned"
    /\ pc' = "idle"
    /\ prev' = IF last.op = "wait_for_conversion" /\ last.wait.timed_out
               THEN "timed_out" ELSE "other"
    /\ last' = NoCall
    /\ UNCHANGED <<info, dev, mode, attached, glitched, other, cur, dec>>

Next ==
    \/ Call_init
    \/ Call_init_solo
    \/ Call_use_crc
    \/ Call_set_resolution
    \/ Call_read_resolution
    \/ Call_convert
    \/ Call_convert_all
    \/ Call_wait_for_conversion
    \/ Call_read_temp
    \/ Call_convert_and_read_temp
    \/ Continue

Spec == Init /\ [][Next]_vars

---------------------------------------------------------------------------
\* Two sessions, each made by ds18b20_init with the ROM code of its own
\* device, share the bus.  Their calls run one at a time: info is the session
\* the caller is using, other the one it is not.

InitShared ==
    /\ info = MallocInfo
    /\ other = MallocInfo
    /\ cur = 1
    /\ attached = {1, 2}
    /\ dev = [d \in Devs |->
                IF d = 1 THEN [lsb |-> 80, msb |-> 5, th |-> 75, tl |-> 70, cfg |-> 31]
                ELSE [lsb |-> 145, msb |-> 1, th |-> 100, tl |-> 10, cfg |-> 127]]
    /\ mode = [d \in Devs |-> "idle"]
    /\ pc = "idle"
    /\ last = NoCall
    /\ prev = "other"
    /\ glitched = FALSE
    /\ dec = NoDecode

\* ds18b20_init of the session in use, with the ROM code of its device
Shared_init ==
    /\ pc = "idle"
    /\ \E e \in Envs(2, 6, 1) :
         Returns(ds18b20_init(Start, e, info, "owb", RomOf[cur]),
                 [NoCall EXCEPT !.op = "init", !.rom = RomOf[cur], !.e = e])

\* ds18b20_set_resolution of the session in use, with a valid resolution
Shared_set_resolution ==
    /\ pc = "idle"
    /\ \E resolution \in DS18B20_RESOLUTION_9_BIT..DS18B20_RESOLUTION_12_BIT,
          e \in Envs(7, 23, 3) :
         Returns(ds18b20_set_resolution(Start, e, info, resolution),
                 [NoCall EXCEPT !.op = "set_resolution", !.arg = resolution, !.e = e])

\* the caller turns to the other session
Switch ==
    /\ pc = "idle"
    /\ info' = other
    /\ other' = info
    /\ cur' = 3 - cur
    /\ UNCHANGED <<dev, mode, attached, pc, last, prev, glitched, dec>>

NextShared ==
    \/ Shared_init
    \/ Switch
    \/ Call_use_crc
    \/ Shared_set_resolution
    \/ Call_read_resolution
    \/ Call_convert
    \/ Call_read_temp
    \/ Continue

SpecShared == InitShared /\ [][NextShared]_vars

---------------------------------------------------------------------------
\* _decode_temp on its own: every pair of bytes at every resolution.

\* uint8_t
Bytes == 0..255

InitDecode ==
    /\ info = MallocInfo
    /\ other = MallocInfo
    /\ cur = 1
    /\ attached = {1}
    /\ dev = [d \in Devs |-> [lsb |-> 80, msb |-> 5, th |-> 75, tl |-> 70, cfg |-> 127]]
    /\ mode = [d \in Devs |-> "idle"]
    /\ pc = "idle"
    /\ last = NoCall
    /\ prev = "other"
    /\ glitched = FALSE
    /\ \E lsb \in Bytes, msb \in Bytes, resolution \in ArgResolutions :
         dec = [NoDecode EXCEPT !.lsb = lsb, !.msb = msb, !.resolution = resolution]

Apply_decode_temp ==
    /\ ~dec.done
    /\ dec' = [dec EXCEPT !.result = _decode_temp(dec.lsb, dec.msb, dec.resolution),
                          !.done = TRUE]
    /\ UNCHANGED <<info, dev, mode, attached, pc, last, prev, glitched, other, cur>>

NextDecode == Apply_decode_temp

SpecDecode == InitDecode /\ [][NextDecode]_vars

---------------------------------------------------------------------------
\* What the claims speak of.

\* the bus trace of the call that has returned
Tr == last.trace

\* the devices the session's ROM selection selects
Addressed(i) == IF i.solo THEN attached ELSE {d \in attached : RomOf[d] = i.rom_code}

\* entry k of the trace is the write of byte b
Wrote(k, b) == Tr[k].op = "write_byte" /\ Tr[k].data = <<b>>

\* entry k of the trace is the reset of _address_device: not the reset that
\* ends a read without CRC
AddressingReset(k) ==
    /\ Tr[k].op = "reset"
    /\ ~(k > 1 /\ ~info.use_crc /\ Tr[k - 1].op = "read_bytes" /\ Tr[k - 1].status)

\* the device answered every reset, no call failed, no byte was corrupted
Clean == last.e.kind = "none"

\* some bus call of the operation reported a transport fault
SomeFault == \E k \in DOMAIN Tr : ~Tr[k].status

\* no device answered the first reset of the operation
NoAnswer == Tr # <<>> /\ Tr[1].op = "reset" /\ Tr[1].status /\ Tr[1].val = 0

\* a transfer of the whole scratchpad arrived with a bad CRC
BadCrc ==
    \E k \in DOMAIN Tr :
      /\ Tr[k].op = "read_bytes" /\ Tr[k].status
      /\ Len(Tr[k].data) = SizeofScratchpad
      /\ owb_crc8_bytes(0, Tr[k].data) # 0

\* the call ran on an initialised session with a valid cached resolution
ValidSession == last.info0.init /\ _check_resolution(last.info0.resolution)

---------------------------------------------------------------------------
\* C1: whenever ds18b20_set_resolution returns true, for every resolution
\* passed, the cached resolution equals the one the addressed device's
\* configuration register encodes.
C1_SetKeepsCacheConsistent ==
    (last.op = "set_resolution" /\ last.result)
        => \A d \in Addressed(info) : info.resolution = DevResolution(dev[d])

\* C2: whenever ds18b20_set_resolution returns false on an initialised
\* session with a valid cached resolution, the cached resolution is the one
\* the device's configuration register encodes (stated for a valid
\* resolution passed, which keeps the case of C1 out of it).
C2_FailedSetRefreshesCache ==
    (last.op = "set_resolution" /\ ValidSession /\ _check_resolution(last.arg)
       /\ ~last.result)
        => \A d \in Addressed(info) : info.resolution = DevResolution(dev[d])

\* the resolution ds18b20_read_resolution returned, or the constructor cached
Yielded == IF last.op = "read_resolution" THEN last.resolution ELSE info.resolution

\* C3: ds18b20_read_resolution (and so the resolution the constructors
\* cache) yields the device's resolution when the scratchpad read succeeds
\* and DS18B20_RESOLUTION_INVALID when no device answers, a bus call fails
\* or the CRC is bad.
C3_ReadResolutionNeverGuesses ==
    (last.op \in {"read_resolution", "init", "init_solo"} /\ info.init)
        => /\ Clean => \A d \in Addressed(info) : Yielded = DevResolution(dev[d])
           /\ (NoAnswer \/ SomeFault \/ BadCrc) => Yielded = DS18B20_RESOLUTION_INVALID

\* C4: when no device answers the reset of addressing, ds18b20_read_temp
\* returns the not-present error, which is neither the unknown error nor
\* the bus error.
C4_AbsentDeviceIsNotPresentError ==
    (last.op = "read_temp" /\ last.info0.init /\ NoAnswer)
        => last.err = "DEVICE" /\ last.err \notin {"UNKNOWN", "OWB"}

\* C5: with use_crc enabled every transfer is of all 9 bytes whatever count
\* was asked for (2 by ds18b20_read_temp, 5 by the resolution functions), and
\* with a device present and no transport fault ds18b20_read_temp returns
\* the CRC error exactly when the CRC-8 of the 9 received bytes is nonzero
\* and OK exactly when it is zero.
C5_CrcGate ==
    (last.op # "none" /\ info.init /\ info.use_crc)
        => /\ \A k \in DOMAIN Tr :
                (Tr[k].op = "read_bytes" /\ Tr[k].status)
                    => Tr[k].val = SizeofScratchpad /\ Len(Tr[k].data) = SizeofScratchpad
           /\ (last.op = "read_temp" /\ last.e.kind \in {"none", "noise"})
                => /\ Len(Tr) > 0 /\ Tr[Len(Tr)].op = "read_bytes"
                   /\ (last.err = "CRC") = (owb_crc8_bytes(0, Tr[Len(Tr)].data) # 0)
                   /\ (last.err = "OK") = (owb_crc8_bytes(0, Tr[Len(Tr)].data) = 0)

\* C5 witness: a read of 9 bytes with CRC enabled that one flipped bit fails
C5_Witness ==
    /\ last.op = "read_temp" /\ info.use_crc /\ last.e.kind = "noise"
    /\ last.err = "CRC"
    /\ Tr[Len(Tr)].op = "read_bytes" /\ Tr[Len(Tr)].val = SizeofScratchpad

\* a bus call of the scratchpad read, up to the byte transfer, reported a
\* transport fault: the reset that ends a read without CRC is not one of them
FaultInRead ==
    \E k \in DOMAIN Tr :
      ~Tr[k].status /\ ~(k > 1 /\ Tr[k].op = "reset" /\ Tr[k - 1].op = "read_bytes")

\* C6: whenever a bus call made during the scratchpad read of
\* ds18b20_read_temp (the reset, the ROM selection, the ROM code, the 0xBE
\* command, the byte transfer) reports a transport fault, ds18b20_read_temp
\* never returns OK.  (The claim also names the error it returns, the bus
\* error; this half of it is the one that fails first.)
C6_FaultNeverOk ==
    (last.op = "read_temp" /\ last.info0.init /\ FaultInRead) => last.err # "OK"

\* C7: the trigger bytes ds18b20_set_resolution writes are the ones the
\* device held before the call, so the device's trigger bytes do not change
\* (stated for a valid resolution passed, which keeps the case of C1 out).
C7_TriggersPreserved ==
    (last.op = "set_resolution" /\ _check_resolution(last.arg))
        => \A d \in Addressed(info) :
             /\ \A k \in DOMAIN Tr :
                  Tr[k].op = "write_bytes"
                      => Tr[k].data[1] = last.dev0[d].th /\ Tr[k].data[2] = last.dev0[d].tl
             /\ dev[d].th = last.dev0[d].th
             /\ dev[d].tl = last.dev0[d].tl

\* C8: after an addressing reset that reports presence a solo session writes
\* the skip-ROM opcode and the operation never transmits a ROM code; a
\* session that is not solo writes the match-ROM opcode and then its ROM
\* code; after one that reports no presence nothing is written before the
\* next reset, and ds18b20_convert returns false.
C8_AddressingDeterminism ==
    (last.op \notin {"none", "convert_all"} /\ info.init)
        => /\ \A k \in DOMAIN Tr :
                AddressingReset(k)
                    => IF Tr[k].val = 1
                       THEN /\ k + 1 <= Len(Tr)
                            /\ IF info.solo
                               THEN Wrote(k + 1, OWB_ROM_SKIP)
                               ELSE /\ Wrote(k + 1, OWB_ROM_MATCH)
                                    /\ k + 2 <= Len(Tr)
                                    /\ Tr[k + 2].op = "write_rom_code"
                                    /\ Tr[k + 2].data = info.rom_code
                       ELSE k = Len(Tr) \/ Tr[k + 1].op = "reset"
           /\ info.solo => \A k \in DOMAIN Tr : Tr[k].op # "write_rom_code"
           /\ \A k \in DOMAIN Tr :
                Tr[k].op = "write_rom_code" => (k > 2 /\ AddressingReset(k - 2))
           /\ (last.op = "convert" /\ Tr[1].val = 0) => ~last.result

\* C8 witness: a session that is not solo has addressed its device by ROM code
C8_Witness ==
    /\ last.op = "convert" /\ info.init /\ ~info.solo /\ last.result
    /\ Tr[1].op = "reset" /\ Tr[1].val = 1
    /\ Wrote(2, OWB_ROM_MATCH)
    /\ Tr[3].op = "write_rom_code" /\ Tr[3].data = RomOf[1]

\* the wait of the call ran on a valid resolution and the bus never
\* signalled the end of the conversion
NeverSignalled ==
    /\ last.op = "wait_for_conversion"
    /\ info.init /\ _check_resolution(info.resolution)
    /\ last.doneAt = 0

\* C9 as stated: on a bus that never signals completion the wait returns
\* after at most ceil(bound / tick period) ticks with an elapsed time of at
\* least the bound.
C9_AtMostCeilTicks ==
    NeverSignalled
        => /\ last.wait.ticks <= last.wait.max
           /\ last.wait.elapsed_time >= last.wait.bound

\* C9 as amended: on a bus that never signals completion the wait returns
\* after at most ceil(bound / tick period) passes of its loop, when the tick
\* counter has advanced by at least that many ticks and by less than that
\* plus the advance of one pass; the elapsed time is at least the bound
\* 750 ms / 2^(12 - resolution) * 1.1; and a ds18b20_read_temp that follows
\* on a responding device returns OK and stores a value in a supplied slot.
C9_BoundedPoll ==
    /\ NeverSignalled
         => /\ last.wait.max * portTICK_PERIOD_MS * 1000 >= last.wait.bound
            /\ (last.wait.max - 1) * portTICK_PERIOD_MS * 1000 < last.wait.bound
            /\ last.wait.bound * (2 ^ (DS18B20_RESOLUTION_12_BIT - info.resolution))
                 = T_CONV * 1100
            /\ last.wait.polls >= 1 /\ last.wait.polls <= last.wait.max
            /\ last.wait.ticks >= last.wait.max
            /\ last.wait.ticks < last.wait.max + last.step
            /\ last.wait.elapsed_time >= last.wait.bound
            /\ last.wait.timed_out
            /\ Len(Tr) = last.wait.polls
    /\ (last.op = "read_temp" /\ prev = "timed_out" /\ info.init /\ Clean)
         => last.err = "OK" /\ (last.slot.has => last.slot.written)

\* C9 witness: a read that follows a wait that timed out has stored a value
C9_Witness ==
    /\ last.op = "read_temp" /\ prev = "timed_out"
    /\ _check_resolution(info.resolution)
    /\ last.err = "OK" /\ last.slot.written

\* C10: in ds18b20_convert_and_read_temp the scratchpad-read command 0xBE is
\* issued only after the convert command 0x44 and after the wait has seen
\* the bus signal completion or has let the conversion bound elapse.
C10_ReadOnlyAfterWait ==
    last.op = "convert_and_read_temp"
        => \A k \in DOMAIN Tr :
             Wrote(k, DS18B20_FUNCTION_SCRATCHPAD_READ)
                 => /\ \E j \in 1..(k - 1) : Wrote(j, DS18B20_FUNCTION_TEMP_CONVERT)
                    /\ \/ last.wait.status = 1
                       \/ last.wait.polls >= 1 /\ last.wait.timed_out

---------------------------------------------------------------------------
\* the composite ran on an initialised session
Composite == last.op = "convert_and_read_temp" /\ last.info0.init

\* its trigger succeeded: the addressing reset of ds18b20_convert saw a device
Triggered == Composite /\ Tr[1].val = 1

\* the trace entry of the convert command of the composite
ConvertAt == IF info.solo THEN 3 ELSE 4

\* after the convert command and the polls of the wait, and nothing else,
\* comes the addressing reset of a scratchpad read
ReadAttempted ==
    /\ Len(Tr) > ConvertAt + last.wait.polls
    /\ \A k \in (ConvertAt + 1)..(ConvertAt + last.wait.polls) : Tr[k].op = "read_bit"
    /\ Tr[ConvertAt + last.wait.polls + 1].op = "reset"

\* the composite stopped at its trigger: one reset, no poll, no read
FailedFast ==
    /\ Len(Tr) = 1 /\ Tr[1].op = "reset"
    /\ last.wait.polls = 0
    /\ last.err \notin {"OK", "none"}

\* C11 as stated: ds18b20_convert_and_read_temp fails fast when its trigger
\* finds no device, and in every call where the trigger succeeds, for every
\* combination of arguments, a scratchpad read is attempted after the wait.
C11_AlwaysReads ==
    /\ (Composite /\ ~Triggered) => FailedFast
    /\ Triggered => ReadAttempted

\* C11 as amended: ds18b20_convert_and_read_temp fails fast when its trigger
\* finds no device; when the trigger succeeds and a slot is supplied a
\* scratchpad read is attempted after the wait, timed out or not; when the
\* trigger succeeds and the slot is NULL it returns DS18B20_ERROR_NULL after
\* the wait without attempting a read.
C11_FailFastElseRead ==
    /\ (Composite /\ ~Triggered) => FailedFast
    /\ (Triggered /\ last.arg = 1) => ReadAttempted
    /\ (Triggered /\ last.arg = 0)
         => /\ last.err = "NULL"
            /\ Len(Tr) = ConvertAt + last.wait.polls
            /\ \A k \in DOMAIN Tr : ~Wrote(k, DS18B20_FUNCTION_SCRATCHPAD_READ)

\* C11 witness: the wait timed out and the read was made all the same
C11_Witness ==
    /\ Triggered /\ last.arg = 1
    /\ last.wait.timed_out /\ last.wait.polls > 0
    /\ ReadAttempted
    /\ \E k \in DOMAIN Tr : Wrote(k, DS18B20_FUNCTION_SCRATCHPAD_READ)
    /\ last.err = "OK"

---------------------------------------------------------------------------
\* ds18b20_set_resolution was called with a valid resolution on an initialised
\* session with a valid cached resolution, and the bus was not disturbed
CleanValidSet ==
    /\ last.op = "set_resolution" /\ ValidSession /\ Clean
    /\ _check_resolution(last.arg)

\* what a ds18b20_read_resolution called now, on an undisturbed bus, returns
ReadResolutionNow ==
    ds18b20_read_resolution(World(dev, mode, attached), NoEnv, info).resolution

\* C12: on an initialised session with a valid cached resolution and a
\* responding device, ds18b20_set_resolution(r) for r in 9..12 returns true,
\* writes the configuration byte ((r - 9) << 5) | 0x1F, and a
\* ds18b20_read_resolution that follows immediately returns r.
C12_ResolutionRoundTrip ==
    CleanValidSet
        => /\ last.result
           /\ \E k \in DOMAIN Tr :
                /\ Tr[k].op = "write_bytes" /\ Len(Tr[k].data) = 3
                /\ Tr[k].data[3] = (last.arg - DS18B20_RESOLUTION_9_BIT) * 32 + 31
           /\ \A d \in Addressed(info) :
                dev[d].cfg = (last.arg - DS18B20_RESOLUTION_9_BIT) * 32 + 31
           /\ ReadResolutionNow = last.arg

\* C12 witness: a device at 9 bits has been set to 12 bits and reads back 12
C12_Witness ==
    /\ CleanValidSet /\ last.arg = DS18B20_RESOLUTION_12_BIT /\ last.result
    /\ last.dev0[1].cfg = 31 /\ dev[1].cfg = 127
    /\ ReadResolutionNow = DS18B20_RESOLUTION_12_BIT

---------------------------------------------------------------------------
\* the bits of the LSB that are undefined at a resolution: 3, 2, 1 or none
UndefinedBits(resolution) == DS18B20_RESOLUTION_12_BIT - resolution

\* the 16-bit two's-complement integer (msb << 8) | (lsb & mask) for the mask
\* of the resolution: 0xF8, 0xFC, 0xFE, 0xFF
RawMasked(lsb, msb, resolution) ==
    LET masked == lsb - (lsb % (2 ^ UndefinedBits(resolution)))
        u == msb * 256 + masked
    IN IF msb >= 128 THEN u - 65536 ELSE u

\* C13: for every lsb and msb in 0..255 and every resolution in 9..12, 16
\* times the value _decode_temp returns is the 16-bit two's-complement
\* integer (msb << 8) | (lsb & mask), so the bits the mask clears do not
\* affect it; for an invalid resolution it returns 0.
C13_DecodeTemp ==
    dec.done
        => /\ dec.result =
                 IF dec.resolution \in 9..12
                 THEN RawMasked(dec.lsb, dec.msb, dec.resolution)
                 ELSE 0
           /\ dec.resolution \in 9..12
                => dec.result = _decode_temp(dec.lsb - (dec.lsb % (2 ^ UndefinedBits(dec.resolution))),
                                             dec.msb, dec.resolution)
           /\ (dec.resolution = 9 /\ dec.msb = 0 /\ dec.lsb \in {248, 255})
                => dec.result = 248

\* C13 witness: at 9 bits LSB 0xFF, MSB 0x00 has been decoded to 15.5 degrees,
\* as LSB 0xF8 is
C13_Witness ==
    /\ dec.done /\ dec.resolution = 9 /\ dec.lsb = 255 /\ dec.msb = 0
    /\ dec.result = 248
    /\ _decode_temp(248, 0, 9) = 248

---------------------------------------------------------------------------
\* ds18b20_read_temp ran on an initialised session
ReadTemp == last.op = "read_temp" /\ last.info0.init

\* the transfer of the scratchpad read of the call, when it got that far
Transfer == CHOOSE k \in DOMAIN Tr : Tr[k].op = "read_bytes"

\* the scratchpad read of the call succeeded: the bytes arrived and, with
\* CRC enabled, there are 9 of them with a CRC-8 of zero
ReadSucceeded ==
    /\ \E k \in DOMAIN Tr : Tr[k].op = "read_bytes"
    /\ Tr[Transfer].status
    /\ info.use_crc => /\ Len(Tr[Transfer].data) = SizeofScratchpad
                       /\ owb_crc8_bytes(0, Tr[Transfer].data) = 0

\* C14: whenever the scratchpad read inside ds18b20_read_temp succeeds,
\* ds18b20_read_temp returns OK and stores in a supplied slot the decoding of
\* scratchpad bytes 0 and 1 at the cached resolution; on a device reporting
\* 0x50, 0x05 with configuration 0x7F, read by its ROM code with CRC enabled
\* at a cached 12 bits, the value stored is 85.0 (1360 sixteenths).
C14_ReadTempDecodes ==
    /\ (ReadTemp /\ ReadSucceeded)
         => /\ last.err = "OK"
            /\ last.arg = 1
                 => /\ last.slot.written
                    /\ last.slot.val =
                          IF info.resolution \in 9..12
                          THEN RawMasked(Tr[Transfer].data[1], Tr[Transfer].data[2],
                                         info.resolution)
                          ELSE 0
    /\ (ReadTemp /\ Clean /\ last.arg = 1 /\ info.use_crc /\ ~info.solo
           /\ info.rom_code = RomOf[1] /\ info.resolution = 12
           /\ dev[1].lsb = 80 /\ dev[1].msb = 5 /\ dev[1].cfg = 127)
         => last.err = "OK" /\ last.slot.val = 1360

\* C14 witness: the session addressed to 0x28AABBCCDDEEFF10 with CRC enabled
\* has read 85.0 from the scratchpad 50 05 4B 46 7F FF 0C 10 and its CRC
C14_Witness ==
    /\ ReadTemp /\ ReadSucceeded /\ Clean /\ info.use_crc /\ ~info.solo
    /\ info.rom_code = <<40, 170, 187, 204, 221, 238, 255, 16>>
    /\ info.resolution = 12
    /\ SubSeq(Tr[Transfer].data, 1, 8) = <<80, 5, 75, 70, 127, 255, 12, 16>>
    /\ last.err = "OK" /\ last.slot.written /\ last.slot.val = 1360

---------------------------------------------------------------------------
\* the public operations that take a session and are not constructors
GuardedOps ==
    {"use_crc", "set_resolution", "read_resolution", "convert",
     "wait_for_conversion", "read_temp", "convert_and_read_temp"}

\* one of them was called on a session whose init flag is false
Uninitialised == last.op \in GuardedOps /\ ~last.info0.init

\* C15: on a session whose init flag is false every public session operation
\* other than the constructors makes no bus call, leaves the session and the
\* devices as they were, and returns its failure or default value: false
\* from set_resolution and convert, DS18B20_RESOLUTION_INVALID from
\* read_resolution, 0 from wait_for_conversion, DS18B20_ERROR_UNKNOWN from
\* read_temp and convert_and_read_temp, which store nothing.
C15_InitGuard ==
    Uninitialised
        => /\ Tr = <<>>
           /\ info = last.info0
           /\ dev = last.dev0
           /\ last.op \in {"set_resolution", "convert"} => ~last.result
           /\ last.op = "read_resolution" => last.resolution = DS18B20_RESOLUTION_INVALID
           /\ last.op = "wait_for_conversion"
                => last.wait.elapsed_time = 0 /\ last.wait.polls = 0
           /\ last.op \in {"read_temp", "convert_and_read_temp"}
                => last.err = "UNKNOWN" /\ ~last.slot.written

\* C15 witness: ds18b20_read_temp was called with a slot on the session
\* ds18b20_malloc returned, and returned the unknown error
C15_Witness ==
    /\ Uninitialised /\ last.op = "read_temp" /\ last.arg = 1
    /\ last.info0 = MallocInfo
    /\ last.err = "UNKNOWN" /\ Tr = <<>> /\ ~last.slot.written

---------------------------------------------------------------------------
\* the device of the session that is not in use
OtherDev == 3 - cur

\* the bus at the start of the call with only the session's own device on it
AloneWorld == World(last.dev0, [d \in Devs |-> "idle"], {cur})

\* what the call that has returned does on that bus, with the same arguments
\* and the same behaviour of the bus
Alone ==
    CASE last.op = "init" ->
           ds18b20_init(AloneWorld, last.e, last.info0, "owb", last.rom)
      [] last.op = "use_crc" ->
           ds18b20_use_crc(AloneWorld, last.info0, last.arg = 1)
      [] last.op = "set_resolution" ->
           ds18b20_set_resolution(AloneWorld, last.e, last.info0, last.arg)
      [] last.op = "read_resolution" ->
           ds18b20_read_resolution(AloneWorld, last.e, last.info0)
      [] last.op = "convert" ->
           ds18b20_convert(AloneWorld, last.e, last.info0)
      [] last.op = "read_temp" ->
           ds18b20_read_temp(AloneWorld, last.e, last.info0, Slot(last.arg = 1))
      [] OTHER -> Ret(AloneWorld, last.info0)

\* a call on one of the two sessions has returned
SharedCall ==
    last.op \in {"init", "use_crc", "set_resolution", "read_resolution", "convert",
                 "read_temp"}

\* C16: when two sessions made with the ROM codes of two devices share the
\* bus and their calls run one at a time, a call of one session leaves the
\* other device's scratchpad as it was, leaves the other device not selected
\* (idle, or waiting for a ROM command after the reset that ends a read),
\* and makes the same bus calls, receives the same bytes, returns the same
\* values and leaves its session and its own device in the same state as it
\* would with its device alone on the bus.
C16_SequentialSharing ==
    SharedCall
        => /\ dev[OtherDev] = last.dev0[OtherDev]
           /\ (Tr # <<>> /\ Tr[1].status) => mode[OtherDev] \in {"idle", "rom"}
           /\ info.init => (~info.solo /\ info.rom_code = RomOf[cur])
           /\ Alone.w.trace = Tr
           /\ Alone.w.dev = dev
           /\ Alone.info = info
           /\ Alone.result = last.result
           /\ Alone.resolution = last.resolution
           /\ Alone.err = last.err
           /\ Alone.slot = last.slot

\* C16 witness: with both sessions initialised the second has changed the
\* resolution of its device, and the first device is as it was
C16_Witness ==
    /\ cur = 2 /\ info.init /\ other.init
    /\ other.rom_code = RomOf[1] /\ info.rom_code = RomOf[2]
    /\ last.op = "set_resolution" /\ last.result /\ last.arg = 10
    /\ last.dev0[2].cfg = 127 /\ dev[2].cfg = 63
    /\ dev[1] = last.dev0[1]
    /\ \E k \in DOMAIN Tr : Wrote(k, DS18B20_FUNCTION_SCRATCHPAD_WRITE)

---------------------------------------------------------------------------
\* C17

\* entry k of the trace is the scratchpad-write command
WriteCommand(k) == Wrote(k, DS18B20_FUNCTION_SCRATCHPAD_WRITE)

\* the trigger bytes the operation had read before entry k: zero when its
\* read transferred nothing
TriggersRead(k) ==
    IF \E j \in 1..(k - 1) : Tr[j].op = "read_bytes" /\ Tr[j].status
    THEN LET j == CHOOSE x \in 1..(k - 1) : Tr[x].op = "read_bytes" /\ Tr[x].status
         IN SubSeq(Tr[j].data, 3, 4)
    ELSE <<0, 0>>

\* C17: every scratchpad-write command 0x4E on the bus is followed at once by
\* one write of exactly three bytes, trigger-high, trigger-low and the
\* configuration in that order; a reset comes only after that write, and no
\* attached device is left in the middle of a scratchpad write
C17_AtomicScratchpadWrite ==
    /\ \A k \in DOMAIN Tr :
          WriteCommand(k)
            => /\ k + 1 \in DOMAIN Tr
               /\ Tr[k + 1].op = "write_bytes"
               /\ Len(Tr[k + 1].data) = 3
               /\ SubSeq(Tr[k + 1].data, 1, 2) = TriggersRead(k)
               /\ Tr[k + 1].data[3] = configuration_value(last.arg)
               /\ (k + 2 \in DOMAIN Tr) => Tr[k + 2].op = "reset"
    /\ \A d \in attached : mode[d] \notin {"w0", "w1", "w2"}

\* a set_resolution to 10 bits that wrote 0x4E, then 75, 70, 63, then reset
\* the bus for the verifying read and left the device with those registers
C17_Witness ==
    /\ last.op = "set_resolution" /\ last.result /\ last.arg = 10
    /\ \E k \in DOMAIN Tr :
          /\ WriteCommand(k)
          /\ Tr[k + 1].data = <<75, 70, 63>>
          /\ Tr[k + 2].op = "reset" /\ Tr[k + 2].val = 1
    /\ dev[1].th = 75 /\ dev[1].tl = 70 /\ dev[1].cfg = 63

---------------------------------------------------------------------------
\* C18

\* entry k of the trace is a function command: scratchpad read, scratchpad
\* write or convert
FunctionCommand(k) ==
    \/ Wrote(k, DS18B20_FUNCTION_SCRATCHPAD_READ)
    \/ Wrote(k, DS18B20_FUNCTION_SCRATCHPAD_WRITE)
    \/ Wrote(k, DS18B20_FUNCTION_TEMP_CONVERT)

\* entry k of the trace is a reset that reported presence
PresenceReset(k) == Tr[k].op = "reset" /\ Tr[k].status /\ Tr[k].val = 1

\* entries k-2, k-1 are a reset that reported presence and skip-ROM
SkipSelected(k) ==
    /\ k >= 3
    /\ Wrote(k - 1, OWB_ROM_SKIP)
    /\ PresenceReset(k - 2)

\* entries k-3 .. k-1 are a reset that reported presence, match-ROM and the
\* ROM code
MatchSelected(k) ==
    /\ k >= 4
    /\ Tr[k - 1].op = "write_rom_code"
    /\ Wrote(k - 2, OWB_ROM_MATCH)
    /\ PresenceReset(k - 3)

\* the call was made on a session: ds18b20_convert_all takes the bus alone
SessionOp == last.op \notin {"none", "convert_all"}

\* C18 as stated, over every operation of the API: every function command
\* on the bus is directly preceded by a reset that reported presence and the
\* ROM selection
C18_AddressingPrecedesEveryCommand ==
    \A k \in DOMAIN Tr : FunctionCommand(k) => (SkipSelected(k) \/ MatchSelected(k))

\* C18: in the trace of an operation on a session every function command is
\* directly preceded by a reset that reported presence and the session's ROM
\* selection, skip-ROM for a solo session, match-ROM and the session's ROM
\* code otherwise; ds18b20_convert_all sends skip-ROM and the convert command
\* after its reset whatever the reset reported
C18_SessionAddressingPrecedes ==
    /\ SessionOp
          => \A k \in DOMAIN Tr :
                FunctionCommand(k)
                  => IF info.solo
                     THEN SkipSelected(k)
                     ELSE MatchSelected(k) /\ Tr[k - 1].data = info.rom_code
    /\ last.op = "convert_all"
          => /\ Len(Tr) = 3
             /\ Tr[1].op = "reset"
             /\ Wrote(2, OWB_ROM_SKIP)
             /\ Wrote(3, DS18B20_FUNCTION_TEMP_CONVERT)

\* a read of the temperature on a session with a ROM code: reset with
\* presence, match-ROM, the ROM code, then the scratchpad-read command
C18_Witness ==
    /\ last.op = "read_temp" /\ info.init /\ ~info.solo
    /\ Len(Tr) >= 4
    /\ PresenceReset(1)
    /\ Wrote(2, OWB_ROM_MATCH)
    /\ Tr[3].op = "write_rom_code" /\ Tr[3].data = info.rom_code
    /\ Wrote(4, DS18B20_FUNCTION_SCRATCHPAD_READ)

---------------------------------------------------------------------------
\* C19

\* the operations that only read the device or trigger a conversion
FrameOps ==
    {"read_resolution", "convert", "convert_all", "wait_for_conversion",
     "read_temp", "convert_and_read_temp"}

\* the registers of a device that a scratchpad write can change
Writable(r) == <<r.th, r.tl, r.cfg>>

\* the operation sent data bytes other than a command byte
WroteData == \E k \in DOMAIN Tr : Tr[k].op = "write_bytes"

\* C19: the scratchpad-write command 0x4E is issued by no operation but
\* ds18b20_set_resolution; read_resolution, convert, convert_all,
\* wait_for_conversion, read_temp and convert_and_read_temp send neither 0x4E
\* nor data bytes, leave trigger-high, trigger-low and configuration of every
\* device as they were, and leave every field of the session as it was,
\* whatever the bus returns
C19_Frame ==
    /\ (\E k \in DOMAIN Tr : WriteCommand(k)) => last.op = "set_resolution"
    /\ last.op \in FrameOps
          => /\ ~WroteData
             /\ \A d \in Devs : Writable(dev[d]) = Writable(last.dev0[d])
             /\ info = last.info0
             /\ info.bus = last.info0.bus
             /\ info.rom_code = last.info0.rom_code
             /\ info.use_crc = last.info0.use_crc
             /\ info.resolution = last.info0.resolution
             /\ info.solo = last.info0.solo
             /\ info.init = last.info0.init

\* a read of the resolution on an initialised session whose corrupted
\* transfer shows another resolution than the cached one: the session keeps
\* its cached resolution and the device its configuration
C19_Witness ==
    /\ last.op = "read_resolution" /\ info.init
    /\ last.e.kind = "noise"
    /\ _check_resolution(last.resolution)
    /\ last.resolution # info.resolution
    /\ info = last.info0
    /\ dev = last.dev0
    /\ \E k \in DOMAIN Tr : Wrote(k, DS18B20_FUNCTION_SCRATCHPAD_READ)

---------------------------------------------------------------------------
\* C20

\* the scratchpad read of the ds18b20_read_temp that has returned, made again
\* on the bus as it was before the call
ReadOfReadTemp ==
    _read_scratchpad(World(last.dev0, [d \in Devs |-> "idle"], attached),
                     last.e, last.info0, ZeroScratchpad, 2)

\* the errors a scratchpad read fails with: no device present, a bus fault,
\* a CRC mismatch
ReadErrors == {"UNKNOWN", "OWB", "CRC"}

\* C20: whenever the scratchpad read of ds18b20_read_temp fails, the call
\* returns the error of the read and still overwrites a supplied slot with
\* the decoding of LSB 0x00, MSB 0x80 at the cached resolution, -32768
\* sixteenths (-2048 degrees) for a valid resolution and 0 for an invalid
\* one, whatever bytes the bus delivered
C20_ReadTempErrorPath ==
    (ReadTemp /\ last.err # "OK")
        => /\ last.err \in ReadErrors
           /\ last.err = ReadOfReadTemp.err
           /\ last.arg = 1
                => /\ last.slot.written
                   /\ last.slot.val = _decode_temp(0, 128, info.resolution)
                   /\ last.slot.val =
                         IF _check_resolution(info.resolution) THEN -32768 ELSE 0

\* a read with CRC enabled whose transfer arrived corrupted, temperature
\* bytes included: the call returned the CRC error and stored -2048 degrees
C20_Witness ==
    /\ ReadTemp /\ last.arg = 1
    /\ last.err = "CRC" /\ BadCrc
    /\ \E k \in DOMAIN Tr :
          /\ Tr[k].op = "read_bytes" /\ Tr[k].status
          /\ Tr[k].data[1] # 0
    /\ info.resolution = 12
    /\ last.slot.written /\ last.slot.val = -32768

=========================================================================
